---- MODULE Spec2Model ----
(***************************************************************************)
(* Model of the pickle-eyes league scripts:                                *)
(*   rank_ptp.py            contextual (heuristic) rating pass             *)
(*   synergize.py           partnership synergy pass                       *)
(*   show_isolated_pools.py pool (connected component) report              *)
(*   rank_ttt.py            the game list handed to the TTT estimator      *)
(* Every script is a batch fold over the rows of one CSV file.  A row is   *)
(* a record of cell texts; a text is a sequence of one-character strings,  *)
(* so that strip(), int() and string comparison are computed, not assumed. *)
(*                                                                         *)
(* Ratings of rank_ptp.py are Python floats.  They are modelled as IEEE    *)
(* 754 doubles with their rounding, so that 2.3 - 2.2 is below 0.1 and     *)
(* 3.6 - 3.5 is above it, as in the script.                                *)
(***************************************************************************)
EXTENDS Integers, Sequences, FiniteSets, TLC

VARIABLES
    prog,               \* which script runs on the file
    rows,               \* the data rows of the CSV file (csv.DictReader)
    ratings_file,       \* rank_ptp: the data rows of the ratings file
    idx,                \* number of rows the reader has delivered
    pc,                 \* "run", "done", or the uncaught exception
    ratings,            \* rank_ptp: player -> rating
    winning_bonus,      \* rank_ptp: the configured WINNING_BONUS
    out,                \* rank_ptp: what update_ratings printed, per row
    player_ratings,     \* synergize: player -> TrueSkill rating
    partnership_stats,  \* synergize: sorted pair -> wins, losses, matches
    player_to_team,     \* synergize: player -> team name
    synergies,          \* synergize: the list of synergy entries
    printed,            \* synergize: the leaderboard rows as printed
    G,                  \* show_isolated_pools: the graph
    components,         \* show_isolated_pools: the reported pools
    compositions,       \* rank_ttt: [[p1, p2], [o1, o2]] per accepted game
    results,            \* rank_ttt: [1, 0] or [0, 1] per accepted game
    match_dates,        \* rank_ttt: the parsed date per accepted game
    players,            \* rank_ttt: the set of players seen
    player_teams,       \* rank_ttt: player -> team name
    times,              \* rank_ttt: the returned times list
    sorted_players      \* rank_ttt: the returned sorted(players)

vars == <<prog, rows, ratings_file, idx, pc, ratings, winning_bonus, out, player_ratings,
          partnership_stats, player_to_team, synergies, printed, G, components,
          compositions, results, match_dates, players, player_teams, times,
          sorted_players>>

common == <<prog, rows, ratings_file>>
ptp_vars == <<ratings, winning_bonus, out>>
syn_vars == <<player_ratings, partnership_stats, player_to_team, synergies, printed>>
pool_vars == <<G, components>>
ttt_vars == <<compositions, results, match_dates, players, player_teams, times,
              sorted_players>>

----------------------------------------------------------------------------
(* Bounds *)

MaxRows == 2

MaxPoolRows == 4

MaxTttRows == 3

----------------------------------------------------------------------------
(* Texts: str.strip, int(str), and the < of Python strings *)

None == "None"

EmptyMap == [x \in {} |-> 0]

Put(f, k, v) == [x \in (DOMAIN f) \cup {k} |-> IF x = k THEN v ELSE f[x]]

IsSpace(c) == c \in {" ", "\t"}

Digits == <<"0", "1", "2", "3", "4", "5", "6", "7", "8", "9">>

IsDigit(c) == \E i \in 1..10 : Digits[i] = c

DigitVal(c) == (CHOOSE i \in 1..10 : Digits[i] = c) - 1

RECURSIVE lstrip(_)
lstrip(s) ==
    IF s = <<>> THEN s
    ELSE IF IsSpace(Head(s)) THEN lstrip(Tail(s)) ELSE s

RECURSIVE rstrip(_)
rstrip(s) ==
    IF s = <<>> THEN s
    ELSE IF IsSpace(s[Len(s)]) THEN rstrip(SubSeq(s, 1, Len(s) - 1)) ELSE s

strip(s) == rstrip(lstrip(s))

\* the digits of int(): after strip and an optional sign
IntBody(s) ==
    LET t == strip(s)
    IN  IF t # <<>> /\ Head(t) \in {"+", "-"} THEN Tail(t) ELSE t

\* int(s) returns a value (otherwise it raises ValueError)
IsInt(s) ==
    /\ IntBody(s) # <<>>
    /\ \A i \in 1..Len(IntBody(s)) : IsDigit(IntBody(s)[i])

RECURSIVE DigitsVal(_)
DigitsVal(t) ==
    IF t = <<>> THEN 0
    ELSE 10 * DigitsVal(SubSeq(t, 1, Len(t) - 1)) + DigitVal(t[Len(t)])

int(s) ==
    LET t == strip(s)
    IN  IF Head(t) = "-" THEN 0 - DigitsVal(IntBody(s)) ELSE DigitsVal(IntBody(s))

\* code points of the characters that occur in the modelled files
ord(c) ==
    CASE c = "\t" -> 9
      [] c = " " -> 32
      [] c = "+" -> 43
      [] c = "-" -> 45
      [] IsDigit(c) -> 48 + DigitVal(c)
      [] c = "A" -> 65
      [] c = "B" -> 66
      [] c = "C" -> 67
      [] c = "D" -> 68
      [] c = "E" -> 69
      [] c = "F" -> 70
      [] c = "G" -> 71
      [] c = "H" -> 72
      [] c = "I" -> 73
      [] c = "J" -> 74
      [] c = "K" -> 75
      [] c = "L" -> 76
      [] c = "T" -> 84
      [] c = "U" -> 85
      [] c = "x" -> 120

\* a < b for Python strings: lexicographic by code point
RECURSIVE StrLess(_, _)
StrLess(a, b) ==
    IF b = <<>> THEN FALSE
    ELSE IF a = <<>> THEN TRUE
    ELSE IF Head(a) = Head(b) THEN StrLess(Tail(a), Tail(b))
    ELSE ord(Head(a)) < ord(Head(b))

abs(x) == IF x < 0 THEN 0 - x ELSE x

----------------------------------------------------------------------------
(* Python floats: IEEE 754 doubles, kept exactly.  A float is
   <<s, a1, a2, a3, a4>>: the sign s (1 or -1) and the magnitude
   (a1 * Base^3 + a2 * Base^2 + a3 * Base + a4) * 2^-86.  Every double that
   is zero or of magnitude from 2^-33 up to 2^16 is such a value, and every
   operation rounds its exact result to 53 significant bits, ties to even.
   Zero is kept positive (-0.0 equals 0.0).  An operand is a value, computed
   once before the operation: each operation binds its operands in
   one-element sets. *)

Base == 2^24

\* carries and borrows are moved up
Norm(a1, a2, a3, a4) ==
    CHOOSE r \in
        {CHOOSE w \in {<<v1 + c2 \div Base, c2 % Base, c3 % Base, v4 % Base>> :
                          c2 \in {v2 + c3 \div Base}} : TRUE :
            v1 \in {a1}, v2 \in {a2}, v4 \in {a4}, c3 \in {a3 + a4 \div Base}} : TRUE

Mag(x) == CHOOSE r \in {<<v[2], v[3], v[4], v[5]>> : v \in {x}} : TRUE

MagLess(a, b) ==
    \E va \in {a}, vb \in {b} :
        \E i \in 1..4 : va[i] < vb[i] /\ \A k \in 1..(i - 1) : va[k] = vb[k]

\* the number of bits of n
BitLen(n) ==
    CHOOSE k \in {IF v = 0 THEN 0
                  ELSE CHOOSE i \in 1..31 : 2^(i - 1) <= v /\ v \div 2^(i - 1) < 2
                    : v \in {n}} : TRUE

MagBits(a) ==
    CHOOSE k \in {IF v[1] > 0 THEN 72 + BitLen(v[1])
                  ELSE IF v[2] > 0 THEN 48 + BitLen(v[2])
                  ELSE IF v[3] > 0 THEN 24 + BitLen(v[3])
                  ELSE BitLen(v[4]) : v \in {a}} : TRUE

\* the magnitude v cut at bit j, 0 <= j < 72: the bits below are cleared and
\* one unit of bit j is added when up
CutAt(v, j, up) ==
    CHOOSE r \in
        {IF c = 4 THEN Norm(v[1], v[2], v[3], v[4] - (v[4] % q) + inc)
         ELSE IF c = 3 THEN Norm(v[1], v[2], v[3] - (v[3] % q) + inc, 0)
         ELSE Norm(v[1], v[2] - (v[2] % q) + inc, 0, 0) :
            c \in {4 - j \div 24}, q \in {2^(j % 24)},
            inc \in {IF up THEN 2^(j % 24) ELSE 0}} : TRUE

\* the bits of the magnitude v below bit j, 1 <= j < 72, against half a unit
\* of bit j: "above", "half" or "below"; sticky tells that the exact value is
\* above the magnitude
Dropped(v, j, sticky) ==
    CHOOSE r \in
        {IF top > half \/ (top = half /\ (rest # 0 \/ sticky)) THEN "above"
         ELSE IF top = half THEN "half" ELSE "below" :
            \* the limb that holds bit j - 1, the bits of it that are dropped
            \* and the limbs below it
            top \in {v[4 - (j - 1) \div 24] % 2^(((j - 1) % 24) + 1)},
            half \in {2^((j - 1) % 24)},
            rest \in {IF (j - 1) \div 24 = 0 THEN 0
                      ELSE IF (j - 1) \div 24 = 1 THEN v[4]
                      ELSE v[3] + v[4]}} : TRUE

\* round to nearest, ties to even, at 53 significant bits; sticky tells that
\* the exact value is above the magnitude a
RoundMag(a, sticky) ==
    CHOOSE r \in
        {IF j <= 0 THEN v
         ELSE CutAt(v, j, \/ Dropped(v, j, st) = "above"
                          \/ /\ Dropped(v, j, st) = "half"
                             /\ (v[4 - j \div 24] \div 2^(j % 24)) % 2 = 1) :
            v \in {a}, st \in {sticky}, j \in {MagBits(a) - 53}} : TRUE

\* the float of sign s and magnitude a; zero is kept positive
Mk(s, a) ==
    CHOOSE r \in {IF v = <<0, 0, 0, 0>> THEN <<1, 0, 0, 0, 0>>
                  ELSE <<vs, v[1], v[2], v[3], v[4]>> : vs \in {s}, v \in {a}} : TRUE

\* x + y
fadd(x, y) ==
    CHOOSE r \in
        {IF vx[1] = vy[1]
         THEN Mk(vx[1], RoundMag(Norm(vx[2] + vy[2], vx[3] + vy[3],
                                      vx[4] + vy[4], vx[5] + vy[5]), FALSE))
         ELSE IF MagLess(Mag(vx), Mag(vy))
         THEN Mk(vy[1], RoundMag(Norm(vy[2] - vx[2], vy[3] - vx[3],
                                      vy[4] - vx[4], vy[5] - vx[5]), FALSE))
         ELSE Mk(vx[1], RoundMag(Norm(vx[2] - vy[2], vx[3] - vy[3],
                                      vx[4] - vy[4], vx[5] - vy[5]), FALSE)) :
            vx \in {x}, vy \in {y}} : TRUE

\* x - y
fsub(x, y) == CHOOSE r \in {fadd(x, Mk(0 - vy[1], Mag(vy))) : vy \in {y}} : TRUE

\* abs(x)
fabs(x) == Mk(1, Mag(x))

\* x < y
fless(x, y) ==
    \E vx \in {x}, vy \in {y} :
        IF vx[1] # vy[1] THEN vx[1] < vy[1]
        ELSE IF vx[1] = 1 THEN MagLess(Mag(vx), Mag(vy))
        ELSE MagLess(Mag(vy), Mag(vx))

\* x / 2
fhalf(x) ==
    CHOOSE r \in {Mk(v[1], <<v[2] \div 2,
                            (v[3] + (v[2] % 2) * Base) \div 2,
                            (v[4] + (v[3] % 2) * Base) \div 2,
                            (v[5] + (v[4] % 2) * Base) \div 2>>) : v \in {x}} : TRUE

\* x * k for an int k >= 0
fmul(x, k) ==
    CHOOSE r \in {Mk(v[1], RoundMag(Norm(v[2] * vk, v[3] * vk, v[4] * vk, v[5] * vk),
                                    FALSE)) :
                    v \in {x}, vk \in {k}} : TRUE

\* floor(a / 10^d), and whether anything was cut off
RECURSIVE DivTens(_, _, _)
DivTens(a, d, sticky) ==
    CHOOSE r \in
        {IF vd = 0 THEN <<v, st>>
         ELSE LET n2 == (v[1] % 10) * Base + v[2]
                  n3 == (n2 % 10) * Base + v[3]
                  n4 == (n3 % 10) * Base + v[4]
              IN  DivTens(<<v[1] \div 10, n2 \div 10, n3 \div 10, n4 \div 10>>, vd - 1,
                          st \/ n4 % 10 # 0) :
            v \in {a}, vd \in {d}, st \in {sticky}} : TRUE

\* the text of float(s) after strip and an optional sign
FloatBody(s) ==
    CHOOSE r \in {IF t # <<>> /\ Head(t) \in {"+", "-"} THEN Tail(t) ELSE t :
                    t \in {strip(s)}} : TRUE

\* float(s) does not raise ValueError, for a cell made of digits, ".", "+",
\* "-" and white space: digits with at most one "." among them, at least
\* one digit, after an optional sign
IsFloat(s) ==
    \E body \in {FloatBody(s)} :
        /\ \A i \in 1..Len(body) : IsDigit(body[i]) \/ body[i] = "."
        /\ Cardinality({i \in 1..Len(body) : body[i] = "."}) <= 1
        /\ \E i \in 1..Len(body) : IsDigit(body[i])

\* float(s) where IsFloat(s), for digits that make a number below 2^17, at
\* most 9 of them after the ".": the double nearest to the decimal
float(s) ==
    CHOOSE r \in
        {LET dots == {i \in 1..Len(body) : body[i] = "."}
             dot == IF dots = {} THEN Len(body) + 1 ELSE CHOOSE i \in dots : TRUE
             frac == SubSeq(body, dot + 1, Len(body))
             N == DigitsVal(SubSeq(body, 1, dot - 1) \o frac)
         IN  CHOOSE f \in {Mk(sign, RoundMag(q[1], q[2])) :
                             q \in {DivTens(<<N * 2^14, 0, 0, 0>>, Len(frac), FALSE)}} : TRUE :
            body \in {FloatBody(s)},
            sign \in {IF strip(s) # <<>> /\ Head(strip(s)) = "-" THEN 0 - 1 ELSE 1}} : TRUE

----------------------------------------------------------------------------
(* The rows a file is made of *)

DEFAULT == <<"D", "E", "F", "A", "U", "L", "T">>

Row(date, gid, t1, t2, line, score) ==
    [match_date |-> date, game_id |-> gid,
     team1_name |-> t1, team2_name |-> t2,
     partner1 |-> line[1], partner2 |-> line[2],
     opponent1 |-> line[3], opponent2 |-> line[4],
     team1_points |-> score[1], team2_points |-> score[2]]

\* the four player cells of a row, stripped, in slot order
Players(row) ==
    <<strip(row.partner1), strip(row.partner2),
      strip(row.opponent1), strip(row.opponent2)>>

\* the sentinel is looked for in team 1's slots only
HasDefault_Team1Only(row) == \E i \in 1..2 : Players(row)[i] = DEFAULT

\* "DEFAULT" in [p1, p2, o1, o2]
HasDefault(row) == \E i \in 1..4 : Players(row)[i] = DEFAULT

\* int() of both score cells succeeds
ScoresParse(row) == IsInt(row.team1_points) /\ IsInt(row.team2_points)

Files(pool, n) == UNION {[1..k -> pool] : k \in 0..n}

----------------------------------------------------------------------------
(* rank_ptp.py *)

BASE_RATING_DELTA == float(<<"0", ".", "0", "0", "3", "5">>)

WINNING_BONUS == float(<<"0", ".", "0", "1">>)

TOSSUP_THRESHOLD == float(<<"0", ".", "1">>)

SLIGHT_THRESHOLD == float(<<"0", ".", "2">>)

BLOWOUT_MARGIN == 12

NARROW_MARGIN == 3

default_rating == float(<<"3", ".", "5">>)

\* one key of the table is misspelt
RATING_CHANGE_Typo ==
    (<<"underdog", "heavy", "narrow">> :> 25) @@
    (<<"underdog", "heavy", "solid">> :> 30) @@
    (<<"underdog", "heavy", "blowout">> :> 35) @@
    (<<"underdog", "slight", "narrow">> :> 18) @@
    (<<"underdog", "slight", "solid">> :> 22) @@
    (<<"underdog", "slight", "blowout">> :> 26) @@
    (<<"tossup", None, "narrow">> :> 12) @@
    (<<"tossup", None, "solid">> :> 15) @@
    (<<"tossup", None, "blowout">> :> 18) @@
    (<<"favored", "slight", "narrow">> :> 8) @@
    (<<"favored", "slight", "solid">> :> 10) @@
    (<<"favored", "slight", "blowout">> :> 12) @@
    (<<"favored", "heavy", "narrow">> :> 3) @@
    (<<"favored", "heavy", "solid">> :> 5) @@
    (<<"favoured", "heavy", "blowout">> :> 7)

RATING_CHANGE ==
    (<<"underdog", "heavy", "narrow">> :> 25) @@
    (<<"underdog", "heavy", "solid">> :> 30) @@
    (<<"underdog", "heavy", "blowout">> :> 35) @@
    (<<"underdog", "slight", "narrow">> :> 18) @@
    (<<"underdog", "slight", "solid">> :> 22) @@
    (<<"underdog", "slight", "blowout">> :> 26) @@
    (<<"tossup", None, "narrow">> :> 12) @@
    (<<"tossup", None, "solid">> :> 15) @@
    (<<"tossup", None, "blowout">> :> 18) @@
    (<<"favored", "slight", "narrow">> :> 8) @@
    (<<"favored", "slight", "solid">> :> 10) @@
    (<<"favored", "slight", "blowout">> :> 12) @@
    (<<"favored", "heavy", "narrow">> :> 3) @@
    (<<"favored", "heavy", "solid">> :> 5) @@
    (<<"favored", "heavy", "blowout">> :> 7)

\* load_ratings on the rows of the ratings file, header skipped, each row of
\* two cells: the mapping built and how the call ends, "return" or
\* "ValueError" at the first rating cell float() refuses
RECURSIVE load_ratings(_)
load_ratings(file) ==
    IF file = <<>> THEN [ratings |-> EmptyMap, end |-> "return"]
    ELSE CHOOSE r \in
            {IF before.end = "ValueError" THEN before
             ELSE IF ~IsFloat(row[2]) THEN [before EXCEPT !.end = "ValueError"]
             ELSE [before EXCEPT !.ratings = Put(before.ratings, row[1], float(row[2]))] :
                before \in {load_ratings(SubSeq(file, 1, Len(file) - 1))},
                row \in {file[Len(file)]}} : TRUE

\* ratings.get(p, default_rating)
Get(rs, p) == IF p \in DOMAIN rs THEN rs[p] ELSE default_rating

\* (ra + rb) / 2
team_rating(ra, rb) == fhalf(fadd(ra, rb))

\* a difference equal to a threshold is put in the lower class
Context_Inclusive(team1_rating, team2_rating, team1_won) ==
    LET rating_diff == fabs(fsub(team1_rating, team2_rating))
        favored_team == IF fless(team2_rating, team1_rating) THEN "team1" ELSE "team2"
    IN  IF ~fless(TOSSUP_THRESHOLD, rating_diff) THEN <<"tossup", None>>
        ELSE <<IF (team1_won /\ favored_team = "team1")
                    \/ (~team1_won /\ favored_team = "team2")
               THEN "favored" ELSE "underdog",
               IF ~fless(SLIGHT_THRESHOLD, rating_diff) THEN "slight" ELSE "heavy">>

\* winner_context and favoredness_level
Context(team1_rating, team2_rating, team1_won) ==
    CHOOSE context \in
        {IF fless(rating_diff, TOSSUP_THRESHOLD) THEN <<"tossup", None>>
         ELSE <<IF (team1_won /\ favored_team = "team1")
                     \/ (~team1_won /\ favored_team = "team2")
                THEN "favored" ELSE "underdog",
                IF fless(rating_diff, SLIGHT_THRESHOLD) THEN "slight" ELSE "heavy">> :
            rating_diff \in {fabs(fsub(team1_rating, team2_rating))},
            favored_team \in {IF fless(team2_rating, team1_rating)
                              THEN "team1" ELSE "team2"}} : TRUE

\* the two lower classes named the wrong way round
result_margin_Swapped(s1, s2) ==
    IF abs(s1 - s2) >= BLOWOUT_MARGIN THEN "blowout"
    ELSE IF abs(s1 - s2) >= NARROW_MARGIN THEN "narrow"
    ELSE "solid"

result_margin(s1, s2) ==
    IF abs(s1 - s2) >= BLOWOUT_MARGIN THEN "blowout"
    ELSE IF abs(s1 - s2) >= NARROW_MARGIN THEN "solid"
    ELSE "narrow"

\* the lookup key of a parsed, non-forfeit row under the mapping rs
Key(rs, row) ==
    CHOOSE key \in
        {<<c[1], c[2], result_margin(s1, s2)>> :
            c \in {Context(team_rating(Get(rs, Players(row)[1]), Get(rs, Players(row)[2])),
                           team_rating(Get(rs, Players(row)[3]), Get(rs, Players(row)[4])),
                           int(row.team1_points) > int(row.team2_points))},
            s1 \in {int(row.team1_points)},
            s2 \in {int(row.team2_points)}} : TRUE

rating_change_multiplier(key) ==
    IF key \in DOMAIN RATING_CHANGE THEN RATING_CHANGE[key] ELSE 10

\* change = BASE_RATING_DELTA * rating_change_multiplier; delta = change / 2
Delta(rs, row) == fhalf(fmul(BASE_RATING_DELTA, rating_change_multiplier(Key(rs, row))))

\* the second loser is not debited
Commit_LoserKept(rs, row, bonus) ==
    LET p == Players(row)
        r1 == Get(rs, p[1])
        r2 == Get(rs, p[2])
        r3 == Get(rs, p[3])
        r4 == Get(rs, p[4])
        delta == Delta(rs, row)
    IN  IF int(row.team1_points) > int(row.team2_points)
        THEN Put(Put(Put(Put(rs, p[1], fadd(fadd(r1, delta), bonus)),
                         p[2], fadd(fadd(r2, delta), bonus)),
                     p[3], fsub(r3, delta)),
                 p[4], r4)
        ELSE Put(Put(Put(Put(rs, p[1], fsub(r1, delta)),
                         p[2], r2),
                     p[3], fadd(fadd(r3, delta), bonus)),
                 p[4], fadd(fadd(r4, delta), bonus))

\* the losers are also debited the winning bonus
Commit_LoserPaysBonus(rs, row, bonus) ==
    LET p == Players(row)
        r1 == Get(rs, p[1])
        r2 == Get(rs, p[2])
        r3 == Get(rs, p[3])
        r4 == Get(rs, p[4])
        delta == Delta(rs, row)
    IN  IF int(row.team1_points) > int(row.team2_points)
        THEN Put(Put(Put(Put(rs, p[1], fadd(fadd(r1, delta), bonus)),
                         p[2], fadd(fadd(r2, delta), bonus)),
                     p[3], fsub(fsub(r3, delta), bonus)),
                 p[4], fsub(fsub(r4, delta), bonus))
        ELSE Put(Put(Put(Put(rs, p[1], fsub(fsub(r1, delta), bonus)),
                         p[2], fsub(fsub(r2, delta), bonus)),
                     p[3], fadd(fadd(r3, delta), bonus)),
                 p[4], fadd(fadd(r4, delta), bonus))

\* team 1 also wins when the scores are equal
Commit_TieToTeam1(rs, row, bonus) ==
    LET p == Players(row)
        r1 == Get(rs, p[1])
        r2 == Get(rs, p[2])
        r3 == Get(rs, p[3])
        r4 == Get(rs, p[4])
        delta == Delta(rs, row)
    IN  IF int(row.team1_points) >= int(row.team2_points)
        THEN Put(Put(Put(Put(rs, p[1], fadd(fadd(r1, delta), bonus)),
                         p[2], fadd(fadd(r2, delta), bonus)),
                     p[3], fsub(r3, delta)),
                 p[4], fsub(r4, delta))
        ELSE Put(Put(Put(Put(rs, p[1], fsub(r1, delta)),
                         p[2], fsub(r2, delta)),
                     p[3], fadd(fadd(r3, delta), bonus)),
                 p[4], fadd(fadd(r4, delta), bonus))

\* the mapping is rebuilt from the four players instead of updated
Commit_Overwrite(rs, row, bonus) ==
    LET p == Players(row)
        r1 == Get(rs, p[1])
        r2 == Get(rs, p[2])
        r3 == Get(rs, p[3])
        r4 == Get(rs, p[4])
        delta == Delta(rs, row)
    IN  IF int(row.team1_points) > int(row.team2_points)
        THEN Put(Put(Put(Put(EmptyMap, p[1], fadd(fadd(r1, delta), bonus)),
                         p[2], fadd(fadd(r2, delta), bonus)),
                     p[3], fsub(r3, delta)),
                 p[4], fsub(r4, delta))
        ELSE Put(Put(Put(Put(EmptyMap, p[1], fsub(r1, delta)),
                         p[2], fsub(r2, delta)),
                     p[3], fadd(fadd(r3, delta), bonus)),
                 p[4], fadd(fadd(r4, delta), bonus))

\* update_ratings on a row that has no DEFAULT and whose scores parse:
\* the four assignments, in the order of the source
Commit(rs, row, bonus) ==
    CHOOSE new \in
        {IF int(row.team1_points) > int(row.team2_points)
         THEN Put(Put(Put(Put(rs, p[1], fadd(fadd(r1, delta), bonus)),
                          p[2], fadd(fadd(r2, delta), bonus)),
                      p[3], fsub(r3, delta)),
                  p[4], fsub(r4, delta))
         ELSE Put(Put(Put(Put(rs, p[1], fsub(r1, delta)),
                          p[2], fsub(r2, delta)),
                      p[3], fadd(fadd(r3, delta), bonus)),
                  p[4], fadd(fadd(r4, delta), bonus)) :
            p \in {Players(row)},
            r1 \in {Get(rs, Players(row)[1])},
            r2 \in {Get(rs, Players(row)[2])},
            r3 \in {Get(rs, Players(row)[3])},
            r4 \in {Get(rs, Players(row)[4])},
            delta \in {Delta(rs, row)}} : TRUE

\* update_ratings(ratings, row): the mapping afterwards and how the call ended
update_ratings(rs, row, bonus) ==
    IF HasDefault(row) THEN [ratings |-> rs, end |-> "skip"]
    ELSE IF ~ScoresParse(row) THEN [ratings |-> rs, end |-> "ValueError"]
    ELSE [ratings |-> Commit(rs, row, bonus), end |-> "match"]

\* the loop of process_matches over rows that all return
RECURSIVE fold_update_ratings(_, _, _)
fold_update_ratings(rs, rowseq, bonus) ==
    IF rowseq = <<>> THEN rs
    ELSE fold_update_ratings(update_ratings(rs, Head(rowseq), bonus).ratings,
                             Tail(rowseq), bonus)

----------------------------------------------------------------------------
(* show_isolated_pools.py *)

\* G.add_edge(u, v): both nodes and the edge
add_edge(g, u, v) ==
    [nodes |-> g.nodes \cup {u, v}, edges |-> g.edges \cup {{u, v}}]

\* only the two teammate edges are added
add_game_edges_TeammatesOnly(g, row) ==
    LET p == Players(row)
    IN  add_edge(add_edge(g, p[1], p[2]), p[3], p[4])

\* the six add_edge calls for one row
add_game_edges(g, row) ==
    LET p == Players(row)
        g1 == add_edge(g, p[1], p[2])
        g2 == add_edge(g1, p[3], p[4])
        g3 == add_edge(g2, p[1], p[3])
        g4 == add_edge(g3, p[1], p[4])
        g5 == add_edge(g4, p[2], p[3])
    IN  add_edge(g5, p[2], p[4])

\* the nodes reachable from the set S
RECURSIVE Reach(_, _)
Reach(g, S) ==
    LET T == S \cup {v \in g.nodes : \E u \in S : {u, v} \in g.edges}
    IN  IF T = S THEN S ELSE Reach(g, T)

\* every node is grouped with its direct neighbours only
connected_components_Neighbours(g) ==
    {{n} \cup {v \in g.nodes : {n, v} \in g.edges} : n \in g.nodes}

\* nx.connected_components(G)
connected_components(g) == {Reach(g, {n}) : n \in g.nodes}

\* the body of the row loop of find_player_pools
pools_row(g, row) ==
    IF HasDefault(row) THEN g ELSE add_game_edges(g, row)

----------------------------------------------------------------------------
(* synergize.py *)

\* ts.Rating(): the prior every player starts from.  The numbers of the
\* trueskill library are not computed: a rating is the term that says which
\* prior ratings ts.rate was given, so two ratings are equal only if they
\* were computed from the same history.
Prior == <<>>

\* the new rating ts.rate returns for one player: side is "win" or "loss"
rate(side, own, mate, opponents) ==
    <<side, own, mate, opponents[1], opponents[2]>>

\* ts.expose(rating)
expose(r) == <<"expose", r>>

\* player_ratings[p] of the defaultdict
Rating(pr, p) == IF p \in DOMAIN pr THEN pr[p] ELSE Prior

\* sum(ts.expose(player_ratings[p]) for p in team), kept as its summands
strength(pr, team) == <<expose(Rating(pr, team[1])), expose(Rating(pr, team[2]))>>

\* the pair is keyed in slot order, not sorted
sorted2_SlotOrder(x, y) == <<x, y>>

\* tuple(sorted([x, y]))
sorted2(x, y) == IF StrLess(y, x) THEN <<y, x>> ELSE <<x, y>>

\* partnership_stats[team] of the defaultdict
Stats(ps, team) ==
    IF team \in DOMAIN ps THEN ps[team] ELSE [wins |-> 0, losses |-> 0, matches |-> <<>>]

\* one pass of the recording loop of update_ratings
record_match(ps, pr, team, opponent, team_score, opponent_score) ==
    LET won == team_score > opponent_score
        old == Stats(ps, team)
    IN  Put(ps, team,
            [matches |-> Append(old.matches,
                                [won |-> won,
                                 team_strength |-> strength(pr, team),
                                 opponent_strength |-> strength(pr, opponent),
                                 score_diff |-> team_score - opponent_score,
                                 opponents |-> opponent]),
             wins |-> IF won THEN old.wins + 1 ELSE old.wins,
             losses |-> IF won THEN old.losses ELSE old.losses + 1])

\* the second team is recorded with the scores of the first
syn_update_ratings_SameScores(st, p1, p2, o1, o2, score1, score2) ==
    LET team_a == sorted2(p1, p2)
        team_b == sorted2(o1, o2)
        ratings_a == <<Rating(st.player_ratings, team_a[1]), Rating(st.player_ratings, team_a[2])>>
        ratings_b == <<Rating(st.player_ratings, team_b[1]), Rating(st.player_ratings, team_b[2])>>
        side_a == IF score1 > score2 THEN "win" ELSE "loss"
        side_b == IF score1 > score2 THEN "loss" ELSE "win"
        pr_a == Put(Put(st.player_ratings,
                        team_a[1], rate(side_a, ratings_a[1], ratings_a[2], ratings_b)),
                    team_a[2], rate(side_a, ratings_a[2], ratings_a[1], ratings_b))
        pr == Put(Put(pr_a,
                      team_b[1], rate(side_b, ratings_b[1], ratings_b[2], ratings_a)),
                  team_b[2], rate(side_b, ratings_b[2], ratings_b[1], ratings_a))
        ps_a == record_match(st.partnership_stats, pr, team_a, team_b, score1, score2)
    IN  [st EXCEPT !.player_ratings = pr,
                   !.partnership_stats = record_match(ps_a, pr, team_b, team_a, score1, score2)]

\* update_ratings(p1, p2, o1, o2, score1, score2) of synergize.py
syn_update_ratings(st, p1, p2, o1, o2, score1, score2) ==
    LET team_a == sorted2(p1, p2)
        team_b == sorted2(o1, o2)
        ratings_a == <<Rating(st.player_ratings, team_a[1]), Rating(st.player_ratings, team_a[2])>>
        ratings_b == <<Rating(st.player_ratings, team_b[1]), Rating(st.player_ratings, team_b[2])>>
        side_a == IF score1 > score2 THEN "win" ELSE "loss"
        side_b == IF score1 > score2 THEN "loss" ELSE "win"
        pr_a == Put(Put(st.player_ratings,
                        team_a[1], rate(side_a, ratings_a[1], ratings_a[2], ratings_b)),
                    team_a[2], rate(side_a, ratings_a[2], ratings_a[1], ratings_b))
        pr == Put(Put(pr_a,
                      team_b[1], rate(side_b, ratings_b[1], ratings_b[2], ratings_a)),
                  team_b[2], rate(side_b, ratings_b[2], ratings_b[1], ratings_a))
        ps_a == record_match(st.partnership_stats, pr, team_a, team_b, score1, score2)
    IN  [st EXCEPT !.player_ratings = pr,
                   !.partnership_stats = record_match(ps_a, pr, team_b, team_a, score2, score1)]

\* the body of the row loop of main
syn_row(st, row) ==
    LET p == Players(row)
        team1_name == strip(row.team1_name)
        team2_name == strip(row.team2_name)
        teams == Put(Put(Put(Put(st.player_to_team, p[1], team1_name),
                             p[2], team1_name), p[3], team2_name), p[4], team2_name)
    IN  IF HasDefault(row) THEN st
        ELSE IF ~ScoresParse(row) THEN [st EXCEPT !.end = "ValueError"]
        ELSE syn_update_ratings([st EXCEPT !.player_to_team = teams],
                                p[1], p[2], p[3], p[4],
                                int(row.team1_points), int(row.team2_points))

RECURSIVE syn_rows(_, _)
syn_rows(st, rowseq) ==
    IF rowseq = <<>> \/ st.end = "ValueError" THEN st
    ELSE syn_rows(syn_row(st, Head(rowseq)), Tail(rowseq))

\* calculate_synergy(partnership, stats): <<>> for None, else <<metrics>>.
\* synergy_score and avg_score_diff are kept as the per-match terms they
\* are averaged from, win_rate as (wins, wins + losses).
calculate_synergy(pr, partnership, stats) ==
    IF Len(stats.matches) < 2 THEN <<>>
    ELSE <<[performance |-> [i \in 1..Len(stats.matches) |->
                                <<stats.matches[i].won,
                                  stats.matches[i].opponent_strength,
                                  stats.matches[i].team_strength>>],
            win_rate |-> <<stats.wins, stats.wins + stats.losses>>,
            matches_played |-> Len(stats.matches),
            score_diffs |-> [i \in 1..Len(stats.matches) |-> stats.matches[i].score_diff],
            individual_strength |-> strength(pr, partnership)]>>

\* the entries main collects: every partnership calculate_synergy returns
\* metrics for.  synergy_score is a TrueSkill-derived float that is not
\* computed; the metrics it is made of are kept under synergy.
leaderboard(st) ==
    {[partnership |-> t[1] \o <<" ", "+", " ">> \o t[2],
      player1 |-> t[1], player2 |-> t[2],
      team_name |-> IF t[1] \in DOMAIN st.player_to_team
                    THEN st.player_to_team[t[1]] ELSE <<>>,
      synergy |-> calculate_synergy(st.player_ratings, t, st.partnership_stats[t])[1]] :
        t \in {u \in DOMAIN st.partnership_stats :
                 calculate_synergy(st.player_ratings, u, st.partnership_stats[u]) # <<>>}}

\* the synergy_score of the entry is above zero: actual is 1 in every game,
\* and the expected probability of a game is between 0 and 1
ScorePositive(e) ==
    \A i \in DOMAIN e.synergy.performance : e.synergy.performance[i][1]

\* the synergy_score of the entry is below zero: actual is 0 in every game
ScoreNegative(e) ==
    \A i \in DOMAIN e.synergy.performance : ~e.synergy.performance[i][1]

\* synergies.sort(key=synergy_score, reverse=True): the lists the sort can
\* leave, the scores not being computed: every order of the entries that
\* puts no entry of negative score before an entry of positive score
sort_by_synergy_score(S) ==
    {l \in [1..Cardinality(S) -> S] :
        /\ \A i, j \in 1..Cardinality(S) : i # j => l[i] # l[j]
        /\ \A i, j \in 1..Cardinality(S) :
              (i < j) => ~(ScoreNegative(l[i]) /\ ScorePositive(l[j]))}

\* the rows printed from the sorted list: rank by position, and only the
\* entries with at least 2 games
RECURSIVE print_rows(_, _)
print_rows(list, rank) ==
    IF rank > Len(list) THEN <<>>
    ELSE (IF list[rank].synergy.matches_played >= 2
          THEN <<[rank |-> rank, data |-> list[rank]]>> ELSE <<>>)
         \o print_rows(list, rank + 1)

----------------------------------------------------------------------------
(* rank_ttt.py: parse_csv_for_ttt *)

AllDigits(t) == \A i \in 1..Len(t) : IsDigit(t[i])

\* the position of the "-" that ends the month of a %Y-%m-%d text
SecondDash(s) == IF s[7] = "-" THEN 7 ELSE 8

MonthText(s) == SubSeq(s, 6, SecondDash(s) - 1)

DayText(s) == SubSeq(s, SecondDash(s) + 1, Len(s))

\* %m: 1[0-2]|0[1-9]|[1-9]
MonthMatches(t) ==
    /\ Len(t) \in {1, 2}
    /\ AllDigits(t)
    /\ IF Len(t) = 2 THEN DigitsVal(t) \in 1..12 ELSE DigitsVal(t) \in 1..9

\* %d: 3[01]|[12]\d|0[1-9]|[1-9]| [1-9]
DayMatches(t) ==
    \/ Len(t) = 2 /\ AllDigits(t) /\ DigitsVal(t) \in 1..31
    \/ Len(t) = 1 /\ AllDigits(t) /\ DigitsVal(t) \in 1..9
    \/ Len(t) = 2 /\ t[1] = " " /\ IsDigit(t[2]) /\ DigitVal(t[2]) \in 1..9

DayVal(t) == IF t[1] = " " THEN DigitVal(t[2]) ELSE DigitsVal(t)

\* the text matches the regular expression of "%Y-%m-%d"
MatchesFormat(s) ==
    /\ Len(s) \in 8..10
    /\ AllDigits(SubSeq(s, 1, 4))
    /\ s[5] = "-"
    /\ s[SecondDash(s)] = "-"
    /\ MonthMatches(MonthText(s))
    /\ DayMatches(DayText(s))

is_leap(y) == y % 4 = 0 /\ (y % 100 # 0 \/ y % 400 = 0)

days_in_month(y, m) ==
    IF m = 2 THEN (IF is_leap(y) THEN 29 ELSE 28)
    ELSE IF m \in {4, 6, 9, 11} THEN 30 ELSE 31

\* datetime.strptime(s, "%Y-%m-%d") returns a value (otherwise ValueError)
IsDate(s) ==
    /\ MatchesFormat(s)
    /\ DigitsVal(SubSeq(s, 1, 4)) >= 1
    /\ DayVal(DayText(s)) <= days_in_month(DigitsVal(SubSeq(s, 1, 4)),
                                           DigitsVal(MonthText(s)))

\* datetime.strptime(s, "%Y-%m-%d"), as (year, month, day)
strptime(s) ==
    <<DigitsVal(SubSeq(s, 1, 4)), DigitsVal(MonthText(s)), DayVal(DayText(s))>>

\* a < b for two datetimes
DateLess(a, b) ==
    \/ a[1] < b[1]
    \/ a[1] = b[1] /\ a[2] < b[2]
    \/ a[1] = b[1] /\ a[2] = b[2] /\ a[3] < b[3]

\* index i is put behind every index whose date is not later: sorted() is stable
RECURSIVE insert(_, _, _)
insert(s, i, dates) ==
    IF s = <<>> THEN <<i>>
    ELSE IF DateLess(dates[i], dates[Head(s)]) THEN <<i>> \o s
    ELSE <<Head(s)>> \o insert(Tail(s), i, dates)

RECURSIVE sort_upto(_, _)
sort_upto(dates, n) ==
    IF n = 0 THEN <<>> ELSE insert(sort_upto(dates, n - 1), n, dates)

\* the indices are left in file order
sorted_indices_Unsorted(dates) == [k \in 1..Len(dates) |-> k]

\* sorted(range(len(match_dates)), key=lambda i: match_dates[i]), from 1
sorted_indices(dates) == sort_upto(dates, Len(dates))

\* [list[i] for i in sorted_indices]
reorder(list, indices) == [k \in 1..Len(indices) |-> list[indices[k]]]

\* sorted(S) for a set of strings
sorted(S) ==
    [k \in 1..Cardinality(S) |->
        CHOOSE x \in S : Cardinality({y \in S : StrLess(y, x)}) = k - 1]

\* if p not in player_teams: player_teams[p] = name
assign_once(f, p, name) == IF p \in DOMAIN f THEN f ELSE Put(f, p, name)

\* the body of the row loop of parse_csv_for_ttt
ttt_row(st, row) ==
    LET p == Players(row)
        team1_name == strip(row.team1_name)
        team2_name == strip(row.team2_name)
        teams == assign_once(assign_once(assign_once(assign_once(
                     st.player_teams, p[1], team1_name), p[2], team1_name),
                     p[3], team2_name), p[4], team2_name)
        appended == [st EXCEPT
                        !.player_teams = teams,
                        !.compositions = Append(@, <<<<p[1], p[2]>>, <<p[3], p[4]>>>>),
                        !.results = Append(@,
                            IF int(row.team1_points) > int(row.team2_points)
                            THEN <<1, 0>> ELSE <<0, 1>>)]
    IN  IF HasDefault(row) THEN st
        ELSE IF ~ScoresParse(row) THEN [st EXCEPT !.player_teams = teams]
        ELSE IF ~IsDate(strip(row.match_date)) THEN [appended EXCEPT !.end = "ValueError"]
        ELSE [appended EXCEPT
                 !.match_dates = Append(@, strptime(strip(row.match_date))),
                 !.players = @ \cup {p[1], p[2], p[3], p[4]}]

----------------------------------------------------------------------------
(* Input files *)

A == <<"A">>
B == <<"B">>
C == <<"C">>
D == <<"D">>
E == <<"E">>
F == <<"F">>
H == <<"H">>
I == <<"I">>
J == <<"J">>
K == <<"K">>
L == <<"L">>

Date1 == <<"2", "0", "2", "4", "-", "0", "3", "-", "0", "1">>
Date2 == <<"2", "0", "2", "4", "-", "0", "3", "-", "0", "8">>

Team1 == <<"T", "1">>
Team2 == <<"T", "2", " ">>

\* score cells
S0 == <<>>
S2 == <<"2">>
S3 == <<"3">>
S5 == <<"5">>
S7 == <<"7">>
S9 == <<"9">>
S11 == <<"1", "1">>
S15 == <<" ", "1", "5">>
Sx == <<"x">>

\* (match_date, game_id) of the rows of the rating files
PtpKeys == {<<Date1, <<"2">>>>, <<Date2, <<"1">>>>}

PtpLineups ==
    {<<<<" ", "A">>, B, <<"C", " ">>, D>>, <<C, D, A, B>>, <<E, F, H, I>>}

PtpScores == {<<S11, S9>>, <<S11, S2>>, <<S3, S15>>}

ForfeitLineups ==
    {<<DEFAULT, B, C, D>>, <<A, DEFAULT \o <<" ">>, C, D>>,
     <<A, B, <<" ">> \o DEFAULT, D>>, <<A, B, C, DEFAULT>>}

BadScores == {<<Sx, S5>>, <<S11, S0>>}

PtpRows ==
    {Row(k[1], k[2], Team1, Team2, l, s) :
        k \in PtpKeys, l \in PtpLineups, s \in PtpScores}
    \cup {Row(Date1, <<"1">>, Team1, Team2, l, s) :
        l \in ForfeitLineups, s \in {<<S11, S9>>, <<Sx, S5>>}}
    \cup {Row(Date2, <<"3">>, Team1, Team2, <<A, B, C, D>>, s) :
        s \in BadScores \cup {<<S7, S7>>}}

\* rows of the files of the pool report
T == <<"T">>

PoolLineups ==
    {<<A, B, C, D>>, <<E, F, H, I>>, <<J, K, L, T>>,
     <<A, E, <<" ", "B">>, F>>, <<I, L, H, <<"T", " ">>>>,
     <<DEFAULT, A, E, J>>, <<A, DEFAULT, E, J>>,
     <<A, E, <<"\t">> \o DEFAULT, J>>, <<A, E, J, DEFAULT \o <<" ">>>>}

PoolRows == {Row(Date1, <<"1">>, Team1, Team2, l, <<S11, Sx>>) : l \in PoolLineups}

\* rows of the files of the synergy pass
SynLineups == {<<A, B, C, D>>, <<<<"B", " ">>, A, D, C>>, <<A, C, B, D>>, <<A, B, E, F>>}

SynRows ==
    {Row(Date1, <<"1">>, Team1, Team2, l, s) :
        l \in SynLineups, s \in {<<S11, S9>>, <<S3, S15>>}}
    \cup {Row(Date1, <<"1">>, Team1, Team2, <<A, B, DEFAULT, DEFAULT>>, <<S0, S0>>),
          Row(Date1, <<"1">>, Team1, Team2, <<A, B, C, D>>, <<Sx, S5>>),
          Row(Date1, <<"1">>, Team1, Team2, <<A, B, C, D>>, <<S7, S7>>)}

\* the ratings files: rows of (player, rating)
RatingsFiles ==
    {<<>>,
     <<<<A, <<"3", ".", "6", "5">>>>, <<B, <<"3", ".", "6", "5">>>>>>,
     <<<<A, <<"3", ".", "7", "5">>>>, <<B, <<" ", "3", ".", "7", "5">>>>,
       <<C, <<"3", ".", "4">>>>>>,
     <<<<A, <<"3", ".", "6", "5">>>>, <<B, <<>>>>, <<C, <<"3", ".", "4">>>>>>,
     <<<<A, <<"0", ".", "0", "0", "1">>>>, <<B, <<".">>>>>>}

\* rows and ratings files for single games of rank_ptp.py: rating
\* differences and margins on and around the thresholds, repeated names
S8 == <<"8">>
S00 == <<"0">>

GameLineups == {<<A, B, C, D>>, <<C, D, A, B>>}

GameScores ==
    {<<S11, S9>>, <<S11, S8>>, <<S11, S00>>, <<S15, S3>>,
     <<S8, S11>>, <<S3, S15>>, <<S7, S7>>}

RepeatLineups == {<<A, B, A, C>>, <<A, A, C, D>>}

GameRows ==
    {Row(Date1, <<"1">>, Team1, Team2, l, s) : l \in GameLineups, s \in GameScores}
    \cup {Row(Date1, <<"1">>, Team1, Team2, l, s) :
        l \in RepeatLineups, s \in {<<S11, S9>>, <<S3, S15>>, <<S7, S7>>}}

GameRatingsFiles ==
    {<<<<E, <<"4", ".", "0">>>>>>,
     <<<<A, <<"0", ".", "2">>>>, <<B, <<"0", ".", "2">>>>,
       <<C, <<"0", ".", "1">>>>, <<D, <<"0", ".", "1">>>>, <<E, <<"4", ".", "0">>>>>>,
     <<<<A, <<"0", ".", "4">>>>, <<B, <<"0", ".", "4">>>>,
       <<C, <<"0", ".", "2">>>>, <<D, <<"0", ".", "2">>>>>>,
     <<<<A, <<"2", ".", "3">>>>, <<B, <<"2", ".", "3">>>>,
       <<C, <<"2", ".", "2">>>>, <<D, <<"2", ".", "2">>>>>>,
     <<<<A, <<"2", ".", "3">>>>, <<B, <<"2", ".", "3">>>>,
       <<C, <<"2", ".", "1">>>>, <<D, <<"2", ".", "1">>>>>>,
     <<<<A, <<"3", ".", "8">>>>, <<B, <<"3", ".", "8">>>>>>,
     <<<<A, <<"0", ".", "0", "0", "1">>>>, <<B, <<"0", ".", "0", "0", "0", "5">>>>>>}

\* rows of the files of rank_ttt.py: one day written in two ways, a later
\* day, an earlier day padded with spaces, a day that does not exist, no date
Date1Short == <<"2", "0", "2", "4", "-", "3", "-", "1">>
DateLeap == <<" ", "2", "0", "2", "4", "-", "0", "2", "-", "2", "9", " ">>
DateNoDay == <<"2", "0", "2", "4", "-", "0", "2", "-", "3", "0">>
DateEmpty == <<>>

TttRows ==
    {Row(Date1, <<"1">>, Team1, Team2, <<A, B, C, D>>, <<S11, S9>>),
     Row(Date1, <<"1">>, Team1, Team2, <<C, D, A, B>>, <<S3, S15>>),
     Row(Date2, <<"1">>, Team1, Team2, <<A, B, C, D>>, <<S11, S9>>),
     Row(Date2, <<"1">>, Team1, Team2, <<C, D, A, B>>, <<S3, S15>>),
     Row(Date1Short, <<"1">>, Team1, Team2, <<A, B, C, D>>, <<S11, S9>>),
     Row(Date1Short, <<"1">>, Team1, Team2, <<A, <<" ", "B">>, C, D>>, <<S3, S15>>),
     Row(DateLeap, <<"1">>, Team1, Team2, <<E, F, A, B>>, <<S11, S9>>),
     Row(DateNoDay, <<"1">>, Team1, Team2, <<A, B, C, D>>, <<S11, S9>>),
     Row(DateEmpty, <<"1">>, Team1, Team2, <<A, B, C, D>>, <<Sx, S5>>),
     Row(Date1, <<"1">>, Team1, Team2, <<A, B, C, D>>, <<S7, S7>>),
     Row(DateEmpty, <<"1">>, Team1, Team2, <<A, B, DEFAULT, DEFAULT>>, <<S0, S0>>)}

\* the values WINNING_BONUS is configured to: none, or the shipped 0.01
BonusConfigs == {float(<<"0">>), WINNING_BONUS}

----------------------------------------------------------------------------
(* State machines *)

NoPtp ==
    ratings_file = <<>> /\ ratings = EmptyMap /\ winning_bonus = 0 /\ out = <<>>

NoSyn ==
    /\ player_ratings = EmptyMap
    /\ partnership_stats = EmptyMap
    /\ player_to_team = EmptyMap
    /\ synergies = <<>>
    /\ printed = <<>>

NoPool == G = [nodes |-> {}, edges |-> {}] /\ components = {}

NoTtt ==
    /\ compositions = <<>>
    /\ results = <<>>
    /\ match_dates = <<>>
    /\ players = {}
    /\ player_teams = EmptyMap
    /\ times = <<>>
    /\ sorted_players = <<>>

\* process_matches(ratings_file, matches_file), before the first row
InitPtp ==
    /\ prog = "rank_ptp"
    /\ rows \in Files(PtpRows, MaxRows)
    /\ idx = 0
    /\ ratings_file \in RatingsFiles
    /\ \E loaded \in {load_ratings(ratings_file)} :
           \* a ValueError of load_ratings ends process_matches before it
           \* holds any ratings
           /\ pc = IF loaded.end = "ValueError" THEN "ValueError" ELSE "run"
           /\ ratings = IF loaded.end = "ValueError" THEN EmptyMap ELSE loaded.ratings
    /\ winning_bonus \in BonusConfigs
    /\ out = <<>>
    /\ NoSyn
    /\ NoTtt
    /\ NoPool

\* one iteration of the loop of process_matches
PtpRow ==
    /\ prog = "rank_ptp"
    /\ pc = "run"
    /\ idx < Len(rows)
    /\ \E res \in {update_ratings(ratings, rows[idx + 1], winning_bonus)} :
           /\ ratings' = res.ratings
           /\ idx' = idx + 1
           /\ pc' = IF res.end = "ValueError" THEN "ValueError" ELSE "run"
           /\ out' = IF res.end = "ValueError" THEN out
                     ELSE Append(out, [row |-> idx + 1, end |-> res.end])
    /\ UNCHANGED <<common, winning_bonus, syn_vars, pool_vars, ttt_vars>>

\* the reader is exhausted: process_matches returns ratings
PtpReturn ==
    /\ prog = "rank_ptp"
    /\ pc = "run"
    /\ idx = Len(rows)
    /\ pc' = "done"
    /\ UNCHANGED <<common, idx, ptp_vars, syn_vars, pool_vars, ttt_vars>>

NextPtp == PtpRow \/ PtpReturn

\* find_player_pools(csv_file), before the first row
InitPool ==
    /\ prog = "show_isolated_pools"
    /\ rows \in Files(PoolRows, MaxPoolRows)
    /\ idx = 0
    /\ pc = "run"
    /\ NoPtp
    /\ NoSyn
    /\ NoTtt
    /\ NoPool

PoolRow ==
    /\ prog = "show_isolated_pools"
    /\ pc = "run"
    /\ idx < Len(rows)
    /\ G' = pools_row(G, rows[idx + 1])
    /\ idx' = idx + 1
    /\ UNCHANGED <<common, pc, components, ptp_vars, syn_vars, ttt_vars>>

\* after the loop: components = list(nx.connected_components(G))
PoolReturn ==
    /\ prog = "show_isolated_pools"
    /\ pc = "run"
    /\ idx = Len(rows)
    /\ components' = connected_components(G)
    /\ pc' = "done"
    /\ UNCHANGED <<common, idx, G, ptp_vars, syn_vars, ttt_vars>>

NextPool == PoolRow \/ PoolReturn

SpecPool == InitPool /\ [][NextPool]_vars

\* the module state of synergize.py as one value
SynState ==
    [player_ratings |-> player_ratings, partnership_stats |-> partnership_stats,
     player_to_team |-> player_to_team, end |-> pc]

SynStart ==
    [player_ratings |-> EmptyMap, partnership_stats |-> EmptyMap,
     player_to_team |-> EmptyMap, end |-> "run"]

\* main() of synergize.py, before the first row
InitSyn ==
    /\ prog = "synergize"
    /\ rows \in Files(SynRows, MaxRows)
    /\ idx = 0
    /\ pc = "run"
    /\ NoPtp
    /\ NoSyn
    /\ NoTtt
    /\ NoPool

SynRow ==
    /\ prog = "synergize"
    /\ pc = "run"
    /\ idx < Len(rows)
    /\ LET st == syn_row(SynState, rows[idx + 1])
       IN  /\ player_ratings' = st.player_ratings
           /\ partnership_stats' = st.partnership_stats
           /\ player_to_team' = st.player_to_team
           /\ pc' = st.end
    /\ idx' = idx + 1
    /\ UNCHANGED <<common, synergies, printed, ptp_vars, pool_vars, ttt_vars>>

\* after the loop: the leaderboard is computed and printed
SynPrint ==
    /\ prog = "synergize"
    /\ pc = "run"
    /\ idx = Len(rows)
    /\ synergies' \in sort_by_synergy_score(leaderboard(SynState))
    /\ printed' = print_rows(synergies', 1)
    /\ pc' = "done"
    /\ UNCHANGED <<common, idx, player_ratings, partnership_stats, player_to_team,
                   ptp_vars, pool_vars, ttt_vars>>

NextSyn == SynRow \/ SynPrint

SpecSyn == InitSyn /\ [][NextSyn]_vars

\* the rating pass or the pool report, run on a file
InitPtpPool == InitPtp \/ InitPool

NextPtpPool == NextPtp \/ NextPool

SpecPtpPool == InitPtpPool /\ [][NextPtpPool]_vars

SpecPtp == InitPtp /\ [][NextPtp]_vars

\* process_matches on the files of single games
InitGame ==
    /\ prog = "rank_ptp"
    /\ rows \in Files(GameRows, MaxRows)
    /\ idx = 0
    /\ ratings_file \in GameRatingsFiles
    /\ \E loaded \in {load_ratings(ratings_file)} :
           \* a ValueError of load_ratings ends process_matches before it
           \* holds any ratings
           /\ pc = IF loaded.end = "ValueError" THEN "ValueError" ELSE "run"
           /\ ratings = IF loaded.end = "ValueError" THEN EmptyMap ELSE loaded.ratings
    /\ winning_bonus \in BonusConfigs
    /\ out = <<>>
    /\ NoSyn
    /\ NoTtt
    /\ NoPool

SpecGame == InitGame /\ [][NextPtp]_vars

TttState ==
    [compositions |-> compositions, results |-> results,
     match_dates |-> match_dates, players |-> players,
     player_teams |-> player_teams, end |-> pc]

\* parse_csv_for_ttt(csv_path), before the first row
InitTtt ==
    /\ prog = "rank_ttt"
    /\ rows \in Files(TttRows, MaxTttRows)
    /\ idx = 0
    /\ pc = "run"
    /\ NoPtp
    /\ NoSyn
    /\ NoTtt
    /\ NoPool

TttRow ==
    /\ prog = "rank_ttt"
    /\ pc = "run"
    /\ idx < Len(rows)
    /\ LET st == ttt_row(TttState, rows[idx + 1])
       IN  /\ compositions' = st.compositions
           /\ results' = st.results
           /\ match_dates' = st.match_dates
           /\ players' = st.players
           /\ player_teams' = st.player_teams
           /\ pc' = st.end
    /\ idx' = idx + 1
    /\ UNCHANGED <<common, times, sorted_players, ptp_vars, syn_vars, pool_vars>>

\* after the loop: the lists are sorted by match_date and returned
TttReturn ==
    /\ prog = "rank_ttt"
    /\ pc = "run"
    /\ idx = Len(rows)
    /\ compositions' = reorder(compositions, sorted_indices(match_dates))
    /\ results' = reorder(results, sorted_indices(match_dates))
    /\ times' = [k \in 1..Len(compositions) |-> k - 1]
    /\ sorted_players' = sorted(players)
    /\ pc' = "done"
    /\ UNCHANGED <<common, idx, match_dates, players, player_teams,
                   ptp_vars, syn_vars, pool_vars>>

NextTtt == TttRow \/ TttReturn

SpecTtt == InitTtt /\ [][NextTtt]_vars

----------------------------------------------------------------------------
(* Claims about rank_ptp.py *)

\* the row has the sentinel in at least one of its four player slots
Forfeit(row) ==
    \/ strip(row.partner1) = DEFAULT
    \/ strip(row.partner2) = DEFAULT
    \/ strip(row.opponent1) = DEFAULT
    \/ strip(row.opponent2) = DEFAULT

\* the row is a game update_ratings applies: no forfeit, both scores parse
Applies(row) == ~Forfeit(row) /\ ScoresParse(row)

FourDistinct(row) == Cardinality({Players(row)[i] : i \in 1..4}) = 4

UnequalScores(row) == int(row.team1_points) # int(row.team2_points)

\* x + y of two floats as real numbers, without rounding
ExactAdd(x, y) ==
    LET a == Mag(x)
        b == Mag(y)
    IN  IF x[1] = y[1]
        THEN Mk(x[1], Norm(a[1] + b[1], a[2] + b[2], a[3] + b[3], a[4] + b[4]))
        ELSE IF MagLess(a, b)
        THEN Mk(y[1], Norm(b[1] - a[1], b[2] - a[2], b[3] - a[3], b[4] - a[4]))
        ELSE Mk(x[1], Norm(a[1] - b[1], a[2] - b[2], a[3] - b[3], a[4] - b[4]))

ExactSub(x, y) == ExactAdd(x, Mk(0 - y[1], Mag(y)))

FloatZero == <<1, 0, 0, 0, 0>>

\* 2^-40, below 1e-12
Tolerance == <<1, 0, 0, 2^22, 0>>

\* the real-number sum over the four slots of (rating after - rating before)
SumOfDeltas(before, after, row) ==
    LET p == Players(row)
        d(i) == ExactSub(after[p[i]], Get(before, p[i]))
    IN  ExactAdd(ExactAdd(d(1), d(2)), ExactAdd(d(3), d(4)))

\* the next row is a game of four distinct players with unequal scores
PlainGameNext ==
    /\ prog = "rank_ptp" /\ pc = "run" /\ idx < Len(rows)
    /\ Applies(rows[idx + 1])
    /\ FourDistinct(rows[idx + 1])
    /\ UnequalScores(rows[idx + 1])

\* C1 as claimed: a game with four distinct players, no DEFAULT and unequal
\* scores changes the four ratings by a total of exactly zero when no winning
\* bonus is configured, and of exactly twice the bonus when one is.
C1_AsClaimed ==
    [][PlainGameNext
       => SumOfDeltas(ratings, ratings', rows[idx + 1])
             = ExactAdd(winning_bonus, winning_bonus)]_vars

\* C1 amended: such a game changes the four ratings by a total that differs
\* from zero (no bonus configured) or from twice the bonus (bonus configured)
\* by less than 1e-12, the rounding of the float additions.
C1_ZeroSum ==
    [][PlainGameNext
       => ~fless(Tolerance,
                 fabs(ExactSub(SumOfDeltas(ratings, ratings', rows[idx + 1]),
                               ExactAdd(winning_bonus, winning_bonus))))]_vars

\* a second game of distinct players was applied, with no bonus configured,
\* from ratings that differ between the teams
C1_Witness ==
    /\ prog = "rank_ptp" /\ idx = 2 /\ Len(out) = 2
    /\ out[2].end = "match"
    /\ FourDistinct(rows[2]) /\ UnequalScores(rows[2])
    /\ winning_bonus = FloatZero
    /\ ratings # load_ratings(ratings_file).ratings

\* (match_date, game_id) of row a is not after that of row b
NotAfter(a, b) ==
    \/ StrLess(strip(a.match_date), strip(b.match_date))
    \/ /\ strip(a.match_date) = strip(b.match_date)
       /\ int(a.game_id) <= int(b.game_id)

\* C2: the updates are applied in non-decreasing match_date order, games of
\* one date in increasing game sequence number, whatever the file order.
C2_Chronological ==
    \A i, j \in 1..Len(out) :
        (i < j /\ out[i].end = "match" /\ out[j].end = "match")
            => NotAfter(rows[out[i].row], rows[out[j].row])

\* C3: a game whose score does not parse leaves the mapping unchanged and the
\* run goes on with the next row.
C3_BadScoreSkipped ==
    [][(/\ prog = "rank_ptp" /\ pc = "run" /\ idx < Len(rows)
        /\ ~Forfeit(rows[idx + 1])
        /\ ~ScoresParse(rows[idx + 1]))
       => (ratings' = ratings /\ idx' = idx + 1 /\ pc' = "run")]_vars

\* the first row of the file is A,B against C,D, 11 to 2, the mapping was
\* empty, and that row has been processed
ExampleGame ==
    /\ prog = "rank_ptp" /\ idx = 1 /\ pc = "run"
    /\ ratings_file = <<>>
    /\ Players(rows[1]) = <<A, B, C, D>>
    /\ ScoresParse(rows[1])
    /\ int(rows[1].team1_points) = 11 /\ int(rows[1].team2_points) = 2

\* C4 as claimed: the example is (tossup, no level, narrow), multiplier 12,
\* and winners gain exactly BASE_RATING_DELTA*12/2, which the losers lose.
C4_AsClaimed ==
    ExampleGame =>
        /\ Key(EmptyMap, rows[1]) = <<"tossup", None, "narrow">>
        /\ ratings[A] = fadd(default_rating, fhalf(fmul(BASE_RATING_DELTA, 12)))
        /\ ratings[B] = fadd(default_rating, fhalf(fmul(BASE_RATING_DELTA, 12)))
        /\ ratings[C] = fsub(default_rating, fhalf(fmul(BASE_RATING_DELTA, 12)))
        /\ ratings[D] = fsub(default_rating, fhalf(fmul(BASE_RATING_DELTA, 12)))

\* C4 amended: the example is (tossup, no level, solid), multiplier 15; A and
\* B hold 3.5 + BASE_RATING_DELTA*15/2 + the winning bonus, C and D hold
\* 3.5 - BASE_RATING_DELTA*15/2, and nobody else has a rating.
C4_Example ==
    ExampleGame =>
        /\ Key(EmptyMap, rows[1]) = <<"tossup", None, "solid">>
        /\ rating_change_multiplier(Key(EmptyMap, rows[1])) = 15
        /\ DOMAIN ratings = {A, B, C, D}
        /\ ratings[A] = fadd(fadd(default_rating, fhalf(fmul(BASE_RATING_DELTA, 15))), winning_bonus)
        /\ ratings[B] = fadd(fadd(default_rating, fhalf(fmul(BASE_RATING_DELTA, 15))), winning_bonus)
        /\ ratings[C] = fsub(default_rating, fhalf(fmul(BASE_RATING_DELTA, 15)))
        /\ ratings[D] = fsub(default_rating, fhalf(fmul(BASE_RATING_DELTA, 15)))

\* the example was run with the shipped bonus
C4_Witness == ExampleGame /\ winning_bonus = WINNING_BONUS /\ out[1].end = "match"

\* a finished run over two applied games of different dates
TwoDatedGames ==
    /\ prog = "rank_ptp" /\ pc = "done" /\ Len(rows) = 2
    /\ Applies(rows[1]) /\ Applies(rows[2])
    /\ strip(rows[1].match_date) # strip(rows[2].match_date)

\* the final mapping of the same two games folded in the other order
Swapped ==
    fold_update_ratings(load_ratings(ratings_file).ratings, <<rows[2], rows[1]>>,
                        winning_bonus)

SharePlayer(a, b) ==
    \E i, j \in 1..4 : Players(a)[i] = Players(b)[j]

\* C6 as claimed: two non-neutral games of different dates always end in a
\* different mapping when folded in the swapped order.
C6_AsClaimed == TwoDatedGames => ratings # Swapped

\* C6 amended: the swapped order ends in a different mapping only if the two
\* games share a player; games with no common player end in the same mapping
\* in both orders.
C6_OrderMattersOnlyIfShared ==
    (TwoDatedGames /\ ~SharePlayer(rows[1], rows[2])) => ratings = Swapped

\* two games without a common player were folded, and so were two games
\* whose order does change the result
C6_Witness == TwoDatedGames /\ ~SharePlayer(rows[1], rows[2])

C6_OrderCanMatter == TwoDatedGames /\ ratings # Swapped

----------------------------------------------------------------------------
(* Claims about forfeits, synergize.py and show_isolated_pools.py *)

\* C5: a row with DEFAULT in any of its four player slots changes nothing in
\* the rating mapping and adds no vertex and no edge to the pool graph,
\* whatever its other slots and its scores hold, and the run goes on.
C5_ForfeitNoEffect ==
    [][(pc = "run" /\ idx < Len(rows) /\ Forfeit(rows[idx + 1]))
       => (ratings' = ratings /\ G' = G /\ pc' = "run" /\ idx' = idx + 1)]_vars

\* a forfeit row whose score does not parse was passed, after a game that
\* did leave its mark
C5_Witness ==
    /\ idx = 2 /\ pc = "run"
    /\ ~Forfeit(rows[1])
    /\ Forfeit(rows[2]) /\ ~ScoresParse(rows[2])
    /\ (ratings # load_ratings(ratings_file).ratings \/ G.edges # {})

\* a finished synergy run over two games
TwoSynGames ==
    /\ prog = "synergize" /\ pc = "done" /\ Len(rows) = 2
    /\ Applies(rows[1]) /\ Applies(rows[2])

\* the records of a match list, without their order: record -> how often
Tally(matches) ==
    [m \in {[won |-> matches[i].won,
             team_strength |-> matches[i].team_strength,
             opponent_strength |-> matches[i].opponent_strength,
             score_diff |-> matches[i].score_diff] : i \in 1..Len(matches)} |->
        Cardinality({i \in 1..Len(matches) :
            /\ matches[i].won = m.won
            /\ matches[i].team_strength = m.team_strength
            /\ matches[i].opponent_strength = m.opponent_strength
            /\ matches[i].score_diff = m.score_diff})]

SwappedSyn == syn_rows(SynStart, <<rows[2], rows[1]>>)

\* C7: the per-partnership records (won, team_strength, opponent_strength,
\* score_diff) are the same for every permutation of the input rows.
C7_OrderIndependent ==
    TwoSynGames =>
        /\ DOMAIN partnership_stats = DOMAIN SwappedSyn.partnership_stats
        /\ \A t \in DOMAIN partnership_stats :
              Tally(partnership_stats[t].matches)
                  = Tally(SwappedSyn.partnership_stats[t].matches)

\* C8: the strengths recorded for every game of a partnership are the sums
\* of the skill values the players hold when the run has finished.
C8_FinalStrengths ==
    (prog = "synergize" /\ pc = "done") =>
        \A t \in DOMAIN partnership_stats :
            \A i \in 1..Len(partnership_stats[t].matches) :
                LET m == partnership_stats[t].matches[i]
                IN  /\ m.team_strength = strength(player_ratings, t)
                    /\ m.opponent_strength = strength(player_ratings, m.opponents)

AllPlayers == {A, B, C, D, E, F}

\* the number of non-forfeit games of the file in which a and b are teammates
JointGames(a, b) ==
    Cardinality({i \in 1..Len(rows) :
        /\ ~Forfeit(rows[i])
        /\ \/ {strip(rows[i].partner1), strip(rows[i].partner2)} = {a, b}
           \/ {strip(rows[i].opponent1), strip(rows[i].opponent2)} = {a, b}})

Listed(a, b) ==
    \E i \in 1..Len(printed) : {printed[i].data.player1, printed[i].data.player2} = {a, b}

\* C9: when the leaderboard is printed, a pair of teammates is on it if and
\* only if it has at least 2 non-forfeit games together.
C9_MinimumGames ==
    (prog = "synergize" /\ pc = "done") =>
        \A a, b \in AllPlayers :
            a # b => (Listed(a, b) <=> JointGames(a, b) >= 2)

\* a pair with exactly 2 joint games, entered in both slot orders, is listed
\* and a pair with exactly 1 is not
C9_Witness ==
    /\ prog = "synergize" /\ pc = "done"
    /\ JointGames(A, B) = 2 /\ Listed(A, B)
    /\ strip(rows[1].partner1) # strip(rows[2].partner1)
    /\ \E a, b \in AllPlayers : a # b /\ JointGames(a, b) = 1 /\ ~Listed(a, b)

\* the non-forfeit rows among the first n
Games(n) == {i \in 1..n : ~Forfeit(rows[i])}

PlayersOf(S) ==
    UNION {{strip(rows[i].partner1), strip(rows[i].partner2),
            strip(rows[i].opponent1), strip(rows[i].opponent2)} : i \in S}

\* X and Y are two non-empty sets of games that share no player
ShareNoPlayer(X, Y) ==
    /\ X # {} /\ Y # {} /\ X \cap Y = {}
    /\ PlayersOf(X) \cap PlayersOf(Y) = {}

\* the games of S reachable from the games of T through common players
RECURSIVE GameReach(_, _)
GameReach(S, Q) ==
    LET N == Q \cup {i \in S : \E j \in Q : PlayersOf({i}) \cap PlayersOf({j}) # {}}
    IN  IF N = Q THEN Q ELSE GameReach(S, N)

\* every game of S is linked to every other by a chain of common players
Linked(S) == \A i \in S : GameReach(S, {i}) = S

\* the last row is a game with players from both sets
CrossGame(X, Y) ==
    /\ Len(rows) \in Games(Len(rows))
    /\ PlayersOf({Len(rows)}) \cap PlayersOf(X) # {}
    /\ PlayersOf({Len(rows)}) \cap PlayersOf(Y) # {}

PoolDone == prog = "show_isolated_pools" /\ pc = "done"

\* C10 as claimed: two sets of games that share no player give exactly 2
\* components, and exactly 1 once a game with players of both is added.
C10_AsClaimed ==
    PoolDone =>
        /\ \A X \in SUBSET Games(Len(rows)) :
              ShareNoPlayer(X, Games(Len(rows)) \ X)
                  => Cardinality(components) = 2
        /\ \A X \in SUBSET Games(Len(rows) - 1) :
              (/\ ShareNoPlayer(X, Games(Len(rows) - 1) \ X)
               /\ CrossGame(X, Games(Len(rows) - 1) \ X))
                  => Cardinality(components) = 1

\* C10 amended: two sets of games that share no player and are each linked
\* by common players give exactly 2 components, and exactly 1 once a game
\* with players of both is added.
C10_TwoLinkedSets ==
    PoolDone =>
        /\ \A X \in SUBSET Games(Len(rows)) :
              (/\ ShareNoPlayer(X, Games(Len(rows)) \ X)
               /\ Linked(X) /\ Linked(Games(Len(rows)) \ X))
                  => Cardinality(components) = 2
        /\ \A X \in SUBSET Games(Len(rows) - 1) :
              (/\ ShareNoPlayer(X, Games(Len(rows) - 1) \ X)
               /\ Linked(X) /\ Linked(Games(Len(rows) - 1) \ X)
               /\ CrossGame(X, Games(Len(rows) - 1) \ X))
                  => Cardinality(components) = 1

\* two linked sets of two games each were merged by a cross game
C10_Witness ==
    /\ PoolDone /\ Len(rows) = 4
    /\ \E X \in SUBSET Games(3) :
          /\ ShareNoPlayer(X, Games(3) \ X)
          /\ Linked(X) /\ Linked(Games(3) \ X)
          /\ Cardinality(Games(3)) = 3
          /\ CrossGame(X, Games(3) \ X)
    /\ Cardinality(components) = 1

\* a file of two linked sets that share no player was reported
C10_TwoPools ==
    /\ PoolDone
    /\ \E X \in SUBSET Games(Len(rows)) :
          /\ ShareNoPlayer(X, Games(Len(rows)) \ X)
          /\ Linked(X) /\ Linked(Games(Len(rows)) \ X)
          /\ Cardinality(X) = 2
    /\ Cardinality(components) = 2

----------------------------------------------------------------------------
(* Claims about the classification and the update of one game *)

\* the mean rating of a team of row under mapping rs: 1 or 2
TeamMean(rs, row, team) ==
    IF team = 1
    THEN fhalf(fadd(Get(rs, strip(row.partner1)), Get(rs, strip(row.partner2))))
    ELSE fhalf(fadd(Get(rs, strip(row.opponent1)), Get(rs, strip(row.opponent2))))

\* rating_diff: the float |team1_rating - team2_rating| the code computes
RatingDiff(rs, row) == fabs(fsub(TeamMean(rs, row, 1), TeamMean(rs, row, 2)))

Team1Higher(rs, row) == fless(TeamMean(rs, row, 2), TeamMean(rs, row, 1))

Team1Wins(row) == int(row.team1_points) > int(row.team2_points)

ScoreMargin(row) == abs(int(row.team1_points) - int(row.team2_points))

\* the next row is a game that update_ratings is about to apply
GameNext ==
    /\ prog = "rank_ptp" /\ pc = "run" /\ idx < Len(rows)
    /\ Applies(rows[idx + 1])

\* C11: for unequal scores the lookup key is 'tossup' with level None iff
\* rating_diff < TOSSUP_THRESHOLD; otherwise the level is 'slight' iff
\* rating_diff < SLIGHT_THRESHOLD, else 'heavy', and the outcome is 'favored'
\* iff the winner is the higher-rated team, else 'underdog'; the margin is
\* 'blowout' iff |s1-s2| >= BLOWOUT_MARGIN, 'solid' iff NARROW_MARGIN <=
\* |s1-s2| < BLOWOUT_MARGIN, else 'narrow'.
C11_KeyClasses ==
    (GameNext /\ UnequalScores(rows[idx + 1])) =>
        LET row == rows[idx + 1]
            key == Key(ratings, row)
            below(threshold) == fless(RatingDiff(ratings, row), threshold)
            m == ScoreMargin(row)
        IN  /\ key[1] \in {"tossup", "favored", "underdog"}
            /\ key[2] \in {None, "slight", "heavy"}
            /\ key[3] \in {"narrow", "solid", "blowout"}
            /\ key[1] = "tossup" <=> below(TOSSUP_THRESHOLD)
            /\ key[2] = None <=> below(TOSSUP_THRESHOLD)
            /\ ~below(TOSSUP_THRESHOLD) =>
                  /\ key[2] = "slight" <=> below(SLIGHT_THRESHOLD)
                  /\ key[1] = "favored"
                        <=> (Team1Wins(row) <=> Team1Higher(ratings, row))
            /\ key[3] = "blowout" <=> m >= BLOWOUT_MARGIN
            /\ key[3] = "solid" <=> (NARROW_MARGIN <= m /\ m < BLOWOUT_MARGIN)
            /\ key[3] = "narrow" <=> m < NARROW_MARGIN

\* a game was applied whose rating difference was exactly TOSSUP_THRESHOLD
\* and whose margin was exactly NARROW_MARGIN
C11_Witness ==
    /\ prog = "rank_ptp" /\ idx = 1 /\ Len(out) = 1 /\ out[1].end = "match"
    /\ RatingDiff(load_ratings(ratings_file).ratings, rows[1]) = TOSSUP_THRESHOLD
    /\ ScoreMargin(rows[1]) = NARROW_MARGIN

\* a game was applied whose rating difference was exactly SLIGHT_THRESHOLD
\* and whose margin was exactly BLOWOUT_MARGIN
C11_UpperEdges ==
    /\ prog = "rank_ptp" /\ idx = 1 /\ Len(out) = 1 /\ out[1].end = "match"
    /\ RatingDiff(load_ratings(ratings_file).ratings, rows[1]) = SLIGHT_THRESHOLD
    /\ ScoreMargin(rows[1]) = BLOWOUT_MARGIN

\* the slots of the winning team of a row, and of the losing team
WinSlots(row) == IF Team1Wins(row) THEN {1, 2} ELSE {3, 4}

LoseSlots(row) == IF Team1Wins(row) THEN {3, 4} ELSE {1, 2}

\* the step applies delta: winners +delta +bonus, losers -delta, from the
\* ratings before the game, and touches nobody else
FrameOfGame(row) ==
    LET p == Players(row)
        delta == Delta(ratings, row)
    IN  /\ \A i \in WinSlots(row) :
              ratings'[p[i]] = fadd(fadd(Get(ratings, p[i]), delta), winning_bonus)
        /\ \A i \in LoseSlots(row) :
              ratings'[p[i]] = fsub(Get(ratings, p[i]), delta)
        /\ DOMAIN ratings' = DOMAIN ratings \cup {p[i] : i \in 1..4}
        /\ \A q \in DOMAIN ratings :
              q \notin {p[i] : i \in 1..4} => ratings'[q] = ratings[q]

\* C12 as claimed: the frame of a game holds for every assignment of names
\* to the four slots.
C12_AsClaimed == [][GameNext => FrameOfGame(rows[idx + 1])]_vars

\* no name is in a slot of team 1 and in a slot of team 2
NoPlayerOnBothTeams(row) ==
    {strip(row.partner1), strip(row.partner2)}
        \cap {strip(row.opponent1), strip(row.opponent2)} = {}

\* C12 amended: for every assignment of names to the four slots that puts
\* no player on both teams, winners hold their pre-game rating (3.5 if never
\* seen) + delta + bonus, losers theirs - delta, delta computed from the four
\* pre-game ratings, and no other rating is created, changed or removed.
C12_Frame ==
    [][(GameNext /\ NoPlayerOnBothTeams(rows[idx + 1]))
          => FrameOfGame(rows[idx + 1])]_vars

\* a game was applied that created players, with a bystander in the mapping
C12_Witness ==
    /\ prog = "rank_ptp" /\ idx = 1 /\ Len(out) = 1 /\ out[1].end = "match"
    /\ NoPlayerOnBothTeams(rows[1])
    /\ E \in DOMAIN load_ratings(ratings_file).ratings
    /\ DOMAIN ratings # DOMAIN load_ratings(ratings_file).ratings
    /\ winning_bonus = WINNING_BONUS

\* the fifteen keys of the policy table, as the source lists them
TableKeys ==
    ({"underdog", "favored"} \X {"slight", "heavy"} \X {"narrow", "solid", "blowout"})
        \cup ({"tossup"} \X {None} \X {"narrow", "solid", "blowout"})

\* C15: every key update_ratings builds is one of the 15 entries of
\* RATING_CHANGE, so the flat multiplier 10 is never used.
C15_TableTotal ==
    GameNext =>
        /\ Key(ratings, rows[idx + 1]) \in DOMAIN RATING_CHANGE
        /\ Key(ratings, rows[idx + 1]) \in TableKeys
        /\ rating_change_multiplier(Key(ratings, rows[idx + 1]))
              = RATING_CHANGE[Key(ratings, rows[idx + 1])]

\* the last key of the table was built and the game applied
C15_Witness ==
    /\ prog = "rank_ptp" /\ idx = 1 /\ Len(out) = 1 /\ out[1].end = "match"
    /\ ~fless(RatingDiff(load_ratings(ratings_file).ratings, rows[1]), SLIGHT_THRESHOLD)
    /\ Team1Wins(rows[1]) /\ Team1Higher(load_ratings(ratings_file).ratings, rows[1])
    /\ ScoreMargin(rows[1]) >= BLOWOUT_MARGIN

\* C17: a non-forfeit game with equal scores (no player on both teams) is
\* applied as a win of team 2 with margin class 'narrow': opponent1 and
\* opponent2 gain delta + bonus, partner1 and partner2 lose delta, and the
\* mapping changes.
C17_TieIsTeam2Win ==
    [][(/\ GameNext
        /\ int(rows[idx + 1].team1_points) = int(rows[idx + 1].team2_points)
        /\ NoPlayerOnBothTeams(rows[idx + 1]))
       => LET row == rows[idx + 1]
              diff == RatingDiff(ratings, row)
              key == <<IF fless(diff, TOSSUP_THRESHOLD) THEN "tossup"
                       ELSE IF Team1Higher(ratings, row) THEN "underdog" ELSE "favored",
                       IF fless(diff, TOSSUP_THRESHOLD) THEN None
                       ELSE IF fless(diff, SLIGHT_THRESHOLD) THEN "slight" ELSE "heavy",
                       "narrow">>
              delta == fhalf(fmul(BASE_RATING_DELTA, RATING_CHANGE[key]))
              gains(p) == ratings'[p] = fadd(fadd(Get(ratings, p), delta), winning_bonus)
              loses(p) == ratings'[p] = fsub(Get(ratings, p), delta)
          IN  /\ gains(strip(row.opponent1))
              /\ gains(strip(row.opponent2))
              /\ loses(strip(row.partner1))
              /\ loses(strip(row.partner2))
              /\ ratings' # ratings
              /\ pc' = "run"]_vars

\* a tie was applied with no bonus configured, and the mapping changed
C17_Witness ==
    /\ prog = "rank_ptp" /\ idx = 1 /\ Len(out) = 1 /\ out[1].end = "match"
    /\ int(rows[1].team1_points) = int(rows[1].team2_points)
    /\ winning_bonus = FloatZero
    /\ ratings # load_ratings(ratings_file).ratings

----------------------------------------------------------------------------
(* Claims about the components of the player graph *)

\* p and q are linked by a chain of non-forfeit games of the file, each
\* sharing a player with the next
ChainLinked(p, q) ==
    \E i, j \in Games(Len(rows)) :
        /\ p \in PlayersOf({i})
        /\ q \in PlayersOf({j})
        /\ j \in GameReach(Games(Len(rows)), {i})

\* C13: the components partition exactly the players of the non-forfeit
\* games; the four players of every non-forfeit game are in one component;
\* two players are in the same component iff a chain of shared non-forfeit
\* games links them; a file without non-forfeit games gives no component.
C13_ComponentsPartition ==
    PoolDone =>
        /\ UNION components = PlayersOf(Games(Len(rows)))
        /\ {} \notin components
        /\ \A c, d \in components : c # d => c \cap d = {}
        /\ \A i \in Games(Len(rows)) :
              \E c \in components : PlayersOf({i}) \subseteq c
        /\ \A p, q \in PlayersOf(Games(Len(rows))) :
              (\E c \in components : p \in c /\ q \in c) <=> ChainLinked(p, q)
        /\ Games(Len(rows)) = {} => components = {}

\* two components were returned, one of them holding two players who never
\* met in a game, and a player seen only in a forfeit is in no component
C13_Witness ==
    /\ PoolDone
    /\ Cardinality(components) = 2
    /\ \E c \in components : \E p, q \in c :
          \A i \in Games(Len(rows)) : ~({p, q} \subseteq PlayersOf({i}))
    /\ \E i \in 1..Len(rows) :
          /\ Forfeit(rows[i])
          /\ \E q \in PlayersOf({i}) : q # DEFAULT /\ q \notin UNION components

\* a file of forfeits only was read and no component was returned
C13_NoGames ==
    /\ PoolDone /\ Len(rows) > 0 /\ Games(Len(rows)) = {}
    /\ components = {}

----------------------------------------------------------------------------
(* Claims about the partnership records *)

\* the rows update_ratings has been called for are the non-forfeit rows
\* among the first Processed rows
Processed == IF pc = "ValueError" THEN idx - 1 ELSE idx

\* the number of processed non-forfeit games in which a and b are teammates
ProcessedJoint(a, b) ==
    Cardinality({i \in 1..Processed :
        /\ ~Forfeit(rows[i])
        /\ \/ {strip(rows[i].partner1), strip(rows[i].partner2)} = {a, b}
           \/ {strip(rows[i].opponent1), strip(rows[i].opponent2)} = {a, b}})

\* every record is keyed by the sorted pair and counts the pair's games
PartnershipCounts ==
    /\ \A t \in DOMAIN partnership_stats :
          /\ ~StrLess(t[2], t[1])
          /\ partnership_stats[t].wins + partnership_stats[t].losses
                = Len(partnership_stats[t].matches)
          /\ Len(partnership_stats[t].matches) = ProcessedJoint(t[1], t[2])
    /\ \A a, b \in AllPlayers :
          ProcessedJoint(a, b) > 0
              => \E t \in DOMAIN partnership_stats : {t[1], t[2]} = {a, b}

\* the key under which the pair {a, b} is recorded in ps
KeyOf(ps, a, b) == CHOOSE t \in DOMAIN ps : {t[1], t[2]} = {a, b}

\* the step records the game of row once for each team, with opposite
\* results and opposite score differences
OppositeRecords(row) ==
    LET ta == KeyOf(partnership_stats', strip(row.partner1), strip(row.partner2))
        tb == KeyOf(partnership_stats', strip(row.opponent1), strip(row.opponent2))
        ma == partnership_stats'[ta].matches[Len(partnership_stats'[ta].matches)]
        mb == partnership_stats'[tb].matches[Len(partnership_stats'[tb].matches)]
        before(t) == IF t \in DOMAIN partnership_stats THEN partnership_stats[t]
                     ELSE [wins |-> 0, losses |-> 0, matches |-> <<>>]
    IN  /\ ma.won = Team1Wins(row)
        /\ mb.won = ~Team1Wins(row)
        /\ ma.score_diff = int(row.team1_points) - int(row.team2_points)
        /\ ma.score_diff + mb.score_diff = 0
        /\ partnership_stats'[ta].wins - before(ta).wins = (IF Team1Wins(row) THEN 1 ELSE 0)
        /\ partnership_stats'[ta].losses - before(ta).losses = (IF Team1Wins(row) THEN 0 ELSE 1)
        /\ partnership_stats'[tb].wins - before(tb).wins = (IF Team1Wins(row) THEN 0 ELSE 1)
        /\ partnership_stats'[tb].losses - before(tb).losses = (IF Team1Wins(row) THEN 1 ELSE 0)

\* C16: for every partnership key (the sorted pair) wins + losses is the
\* length of its matches list, which is the number of non-forfeit games
\* processed in which the two were teammates; and every game with unequal
\* scores is recorded as a win for one partnership and a loss for the other,
\* with score_diff values that are negatives of each other.
C16_PartnershipRecords ==
    [][prog = "synergize" =>
          /\ PartnershipCounts'
          /\ (/\ pc = "run" /\ idx < Len(rows)
              /\ Applies(rows[idx + 1]) /\ UnequalScores(rows[idx + 1]))
                => OppositeRecords(rows[idx + 1])]_vars

\* a pair entered in both slot orders holds one win and one loss under its
\* sorted key
C16_Witness ==
    /\ prog = "synergize" /\ idx = 2
    /\ strip(rows[1].partner1) = B /\ strip(rows[1].partner2) = A
    /\ strip(rows[2].partner1) = A /\ strip(rows[2].partner2) = B
    /\ <<A, B>> \in DOMAIN partnership_stats
    /\ <<B, A>> \notin DOMAIN partnership_stats
    /\ partnership_stats[<<A, B>>].wins = 1
    /\ partnership_stats[<<A, B>>].losses = 1
    /\ Len(partnership_stats[<<A, B>>].matches) = 2

----------------------------------------------------------------------------
(* Claims about the lists of parse_csv_for_ttt *)

\* the rows of the file that parse_csv_for_ttt accepts as games
Accepted == {i \in 1..Len(rows) : Applies(rows[i])}

DateOf(i) == strptime(strip(rows[i].match_date))

\* the number of accepted rows that come before row i: those of an earlier
\* day, and those of the same day that are earlier in the file
Before(i) ==
    Cardinality({j \in Accepted :
        \/ DateLess(DateOf(j), DateOf(i))
        \/ DateOf(j) = DateOf(i) /\ j < i})

\* the row whose game is at position k of the returned lists
Source(k) == CHOOSE i \in Accepted : Before(i) = k - 1

\* C14: the returned compositions are in non-decreasing match_date order,
\* games of the same match_date in the order of the file; results[i] is
\* [1,0] iff team1_points > team2_points in the game whose players are in
\* compositions[i]; and times is 0..n-1.
C14_SortedAndAligned ==
    (prog = "rank_ttt" /\ pc = "done") =>
        LET n == Cardinality(Accepted)
            src == [k \in 1..n |-> Source(k)]
            day == [k \in 1..n |-> DateOf(src[k])]
        IN  /\ Len(compositions) = n
            /\ Len(results) = n
            /\ times = [k \in 1..n |-> k - 1]
            /\ \A k \in 1..n :
                  /\ compositions[k] =
                        <<<<strip(rows[src[k]].partner1), strip(rows[src[k]].partner2)>>,
                          <<strip(rows[src[k]].opponent1), strip(rows[src[k]].opponent2)>>>>
                  /\ results[k] = (IF Team1Wins(rows[src[k]]) THEN <<1, 0>> ELSE <<0, 1>>)
            /\ \A k, l \in 1..n :
                  k < l =>
                      /\ ~DateLess(day[l], day[k])
                      /\ day[k] = day[l] => src[k] < src[l]

\* three games were returned in another order than the file's: the first
\* two of the same day written differently, kept in file order, with
\* different players and results, after a later game in the file
C14_Witness ==
    /\ prog = "rank_ttt" /\ pc = "done" /\ Len(rows) = 3
    /\ Len(compositions) = 3
    /\ Source(1) = 2 /\ Source(2) = 3 /\ Source(3) = 1
    /\ DateOf(2) = DateOf(3)
    /\ strip(rows[2].match_date) # strip(rows[3].match_date)
    /\ compositions[1] # compositions[2]
    /\ results[1] # results[2]
    /\ results[3] # results[2]

====
